---- MODULE Spec2Model ----
(***************************************************************************)
(* Model of src-tauri/src/bedrock_client.rs: the two Bedrock "converse"    *)
(* completion calls (plain and structured), their response decoding, and   *)
(* the serde_json::Value -> aws_smithy_types::Document conversion.         *)
(***************************************************************************)
EXTENDS Integers, Sequences, FiniteSets, TLC

(* ------------------------------ bounds --------------------------------- *)
\* longest content list of a response message
MaxContent == 3
\* integers are sampled within MaxOff of 0, i64::MIN, i64::MAX+1 and u64::MAX+1
MaxOff == 1
\* most nodes (scalars and containers) of a JSON value converted
MaxNodes == 4

(* ------------------------- program constants --------------------------- *)
TRANSCRIPTION_FIELD == "transcription"
TOOL_NAME == "transcription_output"

\* the three fixed error strings of the decoding paths
EmptyResponse == "Bedrock returned an empty response"
UnexpectedResponseShape == "Unexpected response type from Bedrock"
NoTextContent == "Bedrock response contains no text content"

(* --------------------- Option<T> and Result<T, E> ---------------------- *)
None == [some |-> FALSE]
Some(x) == [some |-> TRUE, v |-> x]
Ok(x) == [ok |-> TRUE, val |-> x]
Err(e) == [ok |-> FALSE, err |-> e]

(* ------------------- aws_smithy_types::Document ------------------------ *)
\* A 64-bit quantity is written q * 2^62 + r + h/2 with |r| small, so that
\* comparisons near i64::MIN, i64::MAX and u64::MAX are exact.
DNull == [dk |-> "Null"]
DBool(b) == [dk |-> "Bool", b |-> b]
DNumber(n) == [dk |-> "Number", num |-> n]
DString(s) == [dk |-> "String", str |-> s]
DArray(a) == [dk |-> "Array", arr |-> a]
DObject(m) == [dk |-> "Object", map |-> m]

(* ----------------------------- ContentBlock ---------------------------- *)
Text(s) == [ck |-> "Text", text |-> s]
Image == [ck |-> "Image"]
ToolUse(n, d) == [ck |-> "ToolUse", name |-> n, input |-> d]

(* ------------------------ extract_string_field ------------------------- *)
\* faulty variant: the kind of the value stored at the key is not checked
extract_string_field_nokind(doc, field) ==
    IF doc.dk = "Object"
    THEN IF field \in DOMAIN doc.map
         THEN (IF doc.map[field].dk = "String"
               THEN Some(doc.map[field].str)
               ELSE Some(""))
         ELSE None
    ELSE None

extract_string_field(doc, field) ==
    IF doc.dk = "Object"
    THEN IF field \in DOMAIN doc.map /\ doc.map[field].dk = "String"
         THEN Some(doc.map[field].str)
         ELSE None
    ELSE None

(* ---------------------- extract_text_from_content ---------------------- *)
\* faulty variant: the scan keeps the last text block instead of the first
RECURSIVE extract_text_from_content_last(_)
extract_text_from_content_last(content) ==
    IF content = <<>> THEN Err(NoTextContent)
    ELSE IF content[Len(content)].ck = "Text" THEN Ok(content[Len(content)].text)
    ELSE extract_text_from_content_last(SubSeq(content, 1, Len(content) - 1))

RECURSIVE extract_text_from_content(_)
extract_text_from_content(content) ==
    IF content = <<>> THEN Err(NoTextContent)
    ELSE IF Head(content).ck = "Text" THEN Ok(Head(content).text)
    ELSE extract_text_from_content(Tail(content))

(* ---------------------- extract_text_from_response --------------------- *)
\* faulty variant: an output of another shape is decoded as an empty message
extract_text_from_response_anyshape(response) ==
    IF ~response.output.some THEN Err(EmptyResponse)
    ELSE IF response.output.v.variant # "Message" THEN extract_text_from_content(<<>>)
    ELSE extract_text_from_content(response.output.v.content)

extract_text_from_response(response) ==
    IF ~response.output.some THEN Err(EmptyResponse)
    ELSE IF response.output.v.variant # "Message" THEN Err(UnexpectedResponseShape)
    ELSE extract_text_from_content(response.output.v.content)

(* --------------------------- map_bedrock_error ------------------------- *)
\* format!("Bedrock API error: {}", error)
map_bedrock_error(error) == "Bedrock API error: " \o error

(* ------------------- structured decoding (lines 186-213) --------------- *)
\* the for loop over message.content: the first ToolUse block named TOOL_NAME
\* whose input yields the field; a block that does not is passed over
\* faulty variant: the tool name is not compared
RECURSIVE find_tool_use_text_anyname(_)
find_tool_use_text_anyname(content) ==
    IF content = <<>> THEN None
    ELSE IF /\ Head(content).ck = "ToolUse"
            /\ extract_string_field(Head(content).input, TRANSCRIPTION_FIELD).some
         THEN extract_string_field(Head(content).input, TRANSCRIPTION_FIELD)
         ELSE find_tool_use_text_anyname(Tail(content))

RECURSIVE find_tool_use_text(_)
find_tool_use_text(content) ==
    IF content = <<>> THEN None
    ELSE IF /\ Head(content).ck = "ToolUse"
            /\ Head(content).name = TOOL_NAME
            /\ extract_string_field(Head(content).input, TRANSCRIPTION_FIELD).some
         THEN extract_string_field(Head(content).input, TRANSCRIPTION_FIELD)
         ELSE find_tool_use_text(Tail(content))

\* faulty variant: a matching block without the field ends the call in error
decode_message_strict(content) ==
    IF \E i \in DOMAIN content :
          /\ content[i].ck = "ToolUse"
          /\ content[i].name = TOOL_NAME
          /\ ~extract_string_field(content[i].input, TRANSCRIPTION_FIELD).some
    THEN Err(NoTextContent)
    ELSE IF find_tool_use_text(content).some
         THEN Ok(find_tool_use_text(content).v)
         ELSE extract_text_from_content(content)

\* lines 196-213: tool result first, text fallback second
decode_message(content) ==
    IF find_tool_use_text(content).some
    THEN Ok(find_tool_use_text(content).v)
    ELSE extract_text_from_content(content)

\* faulty variant: an absent output is decoded as an empty message
structured_decode_noempty(response) ==
    IF ~response.output.some THEN decode_message(<<>>)
    ELSE IF response.output.v.variant # "Message" THEN Err(UnexpectedResponseShape)
    ELSE decode_message(response.output.v.content)

\* lines 186-213
structured_decode(response) ==
    IF ~response.output.some THEN Err(EmptyResponse)
    ELSE IF response.output.v.variant # "Message" THEN Err(UnexpectedResponseShape)
    ELSE decode_message(response.output.v.content)

(* ------------------------ serde_json::Number --------------------------- *)
\* integer value q * 2^62 + r
I(q, r) == [q |-> q, r |-> r]
\* f64 value q * 2^62 + r + h/2
F(q, r, h) == [q |-> q, r |-> r, h |-> h]
Le(a, b) == a.q < b.q \/ (a.q = b.q /\ a.r <= b.r)
I64_MIN == I(-2, 0)
I64_MAX == I(2, -1)
U64_MAX == I(4, -1)
Zero == I(0, 0)

\* serde_json's N enum: PosInt(u64), NegInt(i64) always negative, Float(f64) finite
JPosInt(u) == [rep |-> "PosInt", int |-> u]
JNegInt(i) == [rep |-> "NegInt", int |-> i]
JFloat(f) == [rep |-> "Float", flt |-> f]

\* aws_smithy_types::Number
PosInt(u) == [wrep |-> "PosInt", int |-> u]
NegInt(i) == [wrep |-> "NegInt", int |-> i]
Float(f) == [wrep |-> "Float", flt |-> f]

\* `n as f64`: exact for small magnitudes, rounded to the nearest
\* representable value (a multiple of a power of two) near 2^62 and above
ToF64(i) == IF i.q = 0 THEN F(0, i.r, 0) ELSE F(i.q, 0, 0)

\* faulty variant: `n as i64` without the range check wraps modulo 2^64
as_i64_wrapping(n) ==
    CASE n.rep = "PosInt" ->
           IF Le(n.int, I64_MAX) THEN Some(n.int) ELSE Some(I(n.int.q - 4, n.int.r))
      [] n.rep = "NegInt" -> Some(n.int)
      [] OTHER -> None

\* Number::as_i64 as called at line 38
as_i64(n) ==
    CASE n.rep = "PosInt" -> IF Le(n.int, I64_MAX) THEN Some(n.int) ELSE None
      [] n.rep = "NegInt" -> Some(n.int)
      [] OTHER -> None

\* Number::as_u64 as called at line 40
as_u64(n) == IF n.rep = "PosInt" THEN Some(n.int) ELSE None

\* Number::as_f64 as called at line 42
as_f64(n) == IF n.rep = "Float" THEN Some(n.flt) ELSE Some(ToF64(n.int))

(* ------------------------- serde_json::Value --------------------------- *)
JNull == [jk |-> "Null"]
JBool(b) == [jk |-> "Bool", b |-> b]
JNumber(n) == [jk |-> "Number", num |-> n]
JString(s) == [jk |-> "String", str |-> s]
JArray(a) == [jk |-> "Array", arr |-> a]
JObject(m) == [jk |-> "Object", map |-> m]

(* --------------------------- json_to_document -------------------------- *)
\* faulty variant: a float without fractional part is sent as an integer
RECURSIVE json_to_document_intfloat(_)
json_to_document_intfloat(value) ==
    CASE value.jk = "Null" -> DNull
      [] value.jk = "Bool" -> DBool(value.b)
      [] value.jk = "Number" ->
           IF as_i64(value.num).some
           THEN DNumber(NegInt(as_i64(value.num).v))
           ELSE IF as_u64(value.num).some
           THEN DNumber(PosInt(as_u64(value.num).v))
           ELSE IF /\ value.num.flt.h = 0
                   /\ Le(I64_MIN, value.num.flt) /\ Le(value.num.flt, I64_MAX)
           THEN DNumber(NegInt(I(value.num.flt.q, value.num.flt.r)))
           ELSE DNumber(Float(as_f64(value.num).v))
      [] value.jk = "String" -> DString(value.str)
      [] value.jk = "Array" ->
           DArray([i \in DOMAIN value.arr |-> json_to_document_intfloat(value.arr[i])])
      [] value.jk = "Object" ->
           DObject([k \in DOMAIN value.map |-> json_to_document_intfloat(value.map[k])])

RECURSIVE json_to_document(_)
json_to_document(value) ==
    CASE value.jk = "Null" -> DNull
      [] value.jk = "Bool" -> DBool(value.b)
      [] value.jk = "Number" ->
           IF as_i64(value.num).some
           THEN DNumber(NegInt(as_i64(value.num).v))
           ELSE IF as_u64(value.num).some
           THEN DNumber(PosInt(as_u64(value.num).v))
           ELSE IF as_f64(value.num).some
           THEN DNumber(Float(as_f64(value.num).v))
           ELSE DNull
      [] value.jk = "String" -> DString(value.str)
      [] value.jk = "Array" ->
           DArray([i \in DOMAIN value.arr |-> json_to_document(value.arr[i])])
      [] value.jk = "Object" ->
           DObject([k \in DOMAIN value.map |-> json_to_document(value.map[k])])

(* ------------- the way back: Document -> serde_json::Value ------------- *)
\* serde_json's Number::from(i64): a non-negative value is stored as PosInt
from_i64(i) == IF Le(Zero, i) THEN JPosInt(i) ELSE JNegInt(i)

RECURSIVE document_to_json(_)
document_to_json(doc) ==
    CASE doc.dk = "Null" -> JNull
      [] doc.dk = "Bool" -> JBool(doc.b)
      [] doc.dk = "Number" ->
           (CASE doc.num.wrep = "NegInt" -> JNumber(from_i64(doc.num.int))
              [] doc.num.wrep = "PosInt" -> JNumber(JPosInt(doc.num.int))
              [] OTHER -> JNumber(JFloat(doc.num.flt)))
      [] doc.dk = "String" -> JString(doc.str)
      [] doc.dk = "Array" ->
           JArray([i \in DOMAIN doc.arr |-> document_to_json(doc.arr[i])])
      [] doc.dk = "Object" ->
           JObject([k \in DOMAIN doc.map |-> document_to_json(doc.map[k])])

(* --------------------------- request building -------------------------- *)
\* build_client: the client is the profile and the region it was loaded from
build_client(profile_name, region) == [profile |-> profile_name, region |-> region]

SystemText(s) == [sk |-> "Text", text |-> s]

\* Message::builder().role(..).content(..).build(): each content() call appends
\* one block; build() fails only when a required member was never set
Message_build(role, blocks) ==
    IF role.some /\ blocks.some
    THEN Ok([role |-> role.v, content |-> blocks.v])
    ELSE Err("missing field")

\* faulty variant: the system prompt is prepended to the user text
user_message_concat(system_prompt, user_prompt) ==
    Message_build(Some("user"),
                  Some(<<Text(IF system_prompt.some
                              THEN system_prompt.v \o user_prompt
                              ELSE user_prompt)>>))

\* lines 87-94 and 131-135: the message is built from user_prompt alone
user_message(system_prompt, user_prompt) ==
    Message_build(Some("user"), Some(<<Text(user_prompt)>>))

\* lines 85 and 129
system_blocks(system_prompt) ==
    IF system_prompt.some THEN Some(<<SystemText(system_prompt.v)>>) ELSE None

\* lines 138-148: the serde_json::json! schema literal
schema_json ==
    JObject(
      ("type" :> JString("object"))
      @@ ("properties" :>
            JObject(TRANSCRIPTION_FIELD :>
              JObject(("type" :> JString("string"))
                      @@ ("description" :>
                            JString("The cleaned and processed transcription text")))))
      @@ ("required" :> JArray(<<JString(TRANSCRIPTION_FIELD)>>))
      @@ ("additionalProperties" :> JBool(FALSE)))

\* lines 151-169: one tool specification and the choice that names it
tool_config ==
    [tools |-> << [name |-> TOOL_NAME,
                   description |-> "Output the processed transcription text",
                   input_schema |-> json_to_document(schema_json)] >>,
     tool_choice |-> [kind |-> "Tool", name |-> TOOL_NAME]]

\* client.converse().model_id(..).messages(..)[.tool_config(..)][.set_system(..)]
converse_request(client, model_id, message, tools, system) ==
    [client |-> client,
     model_id |-> model_id,
     messages |-> <<message>>,
     tool_config |-> tools,
     system |-> system]

(* ------------------------------ inputs --------------------------------- *)
Profiles == {None, Some("dev")}
Regions == {"us-east-1"}
ModelIds == {"m"}
SystemPrompts == {None, Some("sys")}
UserPrompts == {"hi", "sys"}
\* the rendered descriptions of the SdkError a failed send() returns
SdkErrors == {"service error", "dispatch failure"}

Obj1(k, d) == DObject(k :> d)
EmptyObj == DObject(<<>>)

\* content blocks a response message may carry
Blocks ==
    { Text("first"), Text("second"), Image,
      ToolUse(TOOL_NAME, Obj1(TRANSCRIPTION_FIELD, DString("hello"))),
      ToolUse(TOOL_NAME, Obj1(TRANSCRIPTION_FIELD, DString("world"))),
      ToolUse(TOOL_NAME, EmptyObj),
      ToolUse(TOOL_NAME, Obj1(TRANSCRIPTION_FIELD, DNull)),
      ToolUse(TOOL_NAME, DString("bare")),
      ToolUse("other_tool", Obj1(TRANSCRIPTION_FIELD, DString("other"))) }

Contents == UNION { [1..n -> Blocks] : n \in 0..MaxContent }

\* what the awaited send() can resolve to
Replies ==
    { Err(e) : e \in SdkErrors }
    \cup { Ok([output |-> None]) }
    \cup { Ok([output |-> Some([variant |-> "Unknown"])]) }
    \cup { Ok([output |-> Some([variant |-> "Message", content |-> c])]) : c \in Contents }

(* ------------------- JSON values given to the conversion --------------- *)
Keys == {TRANSCRIPTION_FIELD, "other"}

\* integers around 0, i64::MIN, i64::MAX and u64::MAX; serde_json stores the
\* non-negative ones as PosInt and the negative ones as NegInt
JsonInts ==
    { IF Le(Zero, I(q, r)) THEN JPosInt(I(q, r)) ELSE JNegInt(I(q, r)) :
        q \in {-2, 0, 2, 4}, r \in -MaxOff..MaxOff }
    \cap { n \in [rep : {"PosInt", "NegInt"}, int : [q : {-2, 0, 2, 4}, r : -MaxOff..MaxOff]] :
             Le(I64_MIN, n.int) /\ Le(n.int, U64_MAX) }

\* finite floats: small ones with and without fractional part, and large ones
\* inside and outside the two integer ranges
JsonFloats ==
    { JFloat(F(0, r, h)) : r \in -MaxOff..MaxOff, h \in {0, 1} }
    \cup { JFloat(F(q, 0, 0)) : q \in {-3, -2, 2, 4, 5} }

JsonNumbers == JsonInts \cup JsonFloats

Leaves ==
    { JNull, JBool(TRUE), JBool(FALSE), JString("hello"),
      JNumber(JPosInt(I(0, 1))), JNumber(JFloat(F(0, 1, 0))), JNumber(JPosInt(I(2, 0))) }

RECURSIVE JsonOfSize(_), SeqsOfSize(_), MapsOfSize(_, _)
\* the JSON values of exactly n nodes
JsonOfSize(n) ==
    IF n < 1 THEN {}
    ELSE (IF n = 1 THEN Leaves ELSE {})
         \cup { JArray(a) : a \in SeqsOfSize(n - 1) }
         \cup { JObject(m) : m \in MapsOfSize(Keys, n - 1) }
SeqsOfSize(m) ==
    IF m = 0 THEN { <<>> }
    ELSE UNION { { <<x>> \o rest : x \in JsonOfSize(k), rest \in SeqsOfSize(m - k) } :
                 k \in 1..m }
MapsOfSize(keys, m) ==
    IF keys = {} THEN (IF m = 0 THEN { <<>> } ELSE {})
    ELSE LET k == CHOOSE x \in keys : TRUE
             rest == keys \ {k}
         IN MapsOfSize(rest, m)
            \cup UNION { { (k :> x) @@ r : x \in JsonOfSize(j), r \in MapsOfSize(rest, m - j) } :
                         j \in 1..m }

JsonValues ==
    { JNumber(n) : n \in JsonNumbers } \cup UNION { JsonOfSize(k) : k \in 1..MaxNodes }

(* ------------------------------- state --------------------------------- *)
VARIABLES
    pc,       \* where the call is: "idle", "awaiting", "replied", "done"
    args,     \* the arguments of the call and its mode
    request,  \* the converse request dispatched, if any
    sends,    \* number of send() calls made
    reply,    \* what send().await resolved to
    result,   \* the Result<String, String> returned to the caller
    dpc,      \* where the conversion is: "off", "input", "converted", "back", "extracted"
    value,    \* the serde_json::Value given to json_to_document
    doc,      \* the Document it produced
    back,     \* the Document converted back to a serde_json::Value
    field,    \* the key asked of extract_string_field
    found     \* the Option<String> it returned

vars == <<pc, args, request, sends, reply, result, dpc, value, doc, back, field, found>>
callVars == <<pc, args, request, sends, reply, result>>
docVars == <<dpc, value, doc, back, field, found>>

Pending == [pending |-> TRUE]

CallIdle ==
    /\ pc = "idle"
    /\ args = Pending
    /\ request = None
    /\ sends = 0
    /\ reply = Pending
    /\ result = Pending

DocIdle(v, at) ==
    /\ dpc = at
    /\ value = v
    /\ doc = Pending
    /\ back = Pending
    /\ field = ""
    /\ found = Pending

(* ------------------------ send_bedrock_completion ---------------------- *)
\* lines 71-102: up to the awaited send()
send_bedrock_completion(profile_name, region, model_id, system_prompt, user_prompt) ==
    /\ pc = "idle"
    /\ args' = [mode |-> "plain", profile_name |-> profile_name, region |-> region,
                model_id |-> model_id, system_prompt |-> system_prompt,
                user_prompt |-> user_prompt]
    /\ LET client == build_client(profile_name, region)
           system == system_blocks(system_prompt)
           message == user_message(system_prompt, user_prompt)
       IN IF ~message.ok
          THEN /\ result' = Err("Failed to build message: " \o message.err)
               /\ pc' = "done"
               /\ UNCHANGED <<request, sends>>
          ELSE /\ request' = Some(converse_request(client, model_id, message.val,
                                                   None, system))
               /\ sends' = sends + 1
               /\ pc' = "awaiting"
               /\ UNCHANGED result
    /\ UNCHANGED <<reply, docVars>>

\* faulty variant: a failed send() is dispatched once more
send_bedrock_completion_resume_retry ==
    /\ pc = "replied"
    /\ args.mode = "plain"
    /\ IF ~reply.ok
       THEN /\ sends' = sends + 1
            /\ pc' = "awaiting"
            /\ UNCHANGED result
       ELSE /\ result' = extract_text_from_response(reply.val)
            /\ pc' = "done"
            /\ UNCHANGED sends
    /\ UNCHANGED <<args, request, reply, docVars>>

\* lines 102-107: send() resolved; map the error or decode the response
send_bedrock_completion_resume ==
    /\ pc = "replied"
    /\ args.mode = "plain"
    /\ result' = IF ~reply.ok
                 THEN Err(map_bedrock_error(reply.err))
                 ELSE extract_text_from_response(reply.val)
    /\ pc' = "done"
    /\ UNCHANGED <<args, request, sends, reply, docVars>>

(* ------------------- send_bedrock_structured_completion ---------------- *)
\* lines 115-181: up to the awaited send()
send_bedrock_structured_completion(profile_name, region, model_id, system_prompt, user_prompt) ==
    /\ pc = "idle"
    /\ args' = [mode |-> "structured", profile_name |-> profile_name, region |-> region,
                model_id |-> model_id, system_prompt |-> system_prompt,
                user_prompt |-> user_prompt]
    /\ LET client == build_client(profile_name, region)
           system == system_blocks(system_prompt)
           message == user_message(system_prompt, user_prompt)
       IN IF ~message.ok
          THEN /\ result' = Err("Failed to build message: " \o message.err)
               /\ pc' = "done"
               /\ UNCHANGED <<request, sends>>
          ELSE /\ request' = Some(converse_request(client, model_id, message.val,
                                                   Some(tool_config), system))
               /\ sends' = sends + 1
               /\ pc' = "awaiting"
               /\ UNCHANGED result
    /\ UNCHANGED <<reply, docVars>>

\* lines 181-213
send_bedrock_structured_completion_resume ==
    /\ pc = "replied"
    /\ args.mode = "structured"
    /\ result' = IF ~reply.ok
                 THEN Err(map_bedrock_error(reply.err))
                 ELSE structured_decode(reply.val)
    /\ pc' = "done"
    /\ UNCHANGED <<args, request, sends, reply, docVars>>

\* the remote service (or the transport) answers the one request in flight
converse_reply ==
    /\ pc = "awaiting"
    /\ reply' \in Replies
    /\ pc' = "replied"
    /\ UNCHANGED <<args, request, sends, result, docVars>>

(* -------------------- conversion and field extraction ------------------ *)
Convert ==
    /\ dpc = "input"
    /\ doc' = json_to_document(value)
    /\ dpc' = "converted"
    /\ UNCHANGED <<value, back, field, found, callVars>>

ConvertBack ==
    /\ dpc = "converted"
    /\ back' = document_to_json(doc)
    /\ dpc' = "back"
    /\ UNCHANGED <<value, doc, field, found, callVars>>

ExtractField(f) ==
    /\ dpc = "converted"
    /\ field' = f
    /\ found' = extract_string_field(doc, f)
    /\ dpc' = "extracted"
    /\ UNCHANGED <<value, doc, back, callVars>>

(* --------------------------- specifications ---------------------------- *)
Init == CallIdle /\ DocIdle(JNull, "off")

Next ==
    \/ \E p \in Profiles, r \in Regions, m \in ModelIds, s \in SystemPrompts, u \in UserPrompts :
          send_bedrock_completion(p, r, m, s, u)
    \/ \E p \in Profiles, r \in Regions, m \in ModelIds, s \in SystemPrompts, u \in UserPrompts :
          send_bedrock_structured_completion(p, r, m, s, u)
    \/ converse_reply
    \/ send_bedrock_completion_resume
    \/ send_bedrock_structured_completion_resume

Spec == Init /\ [][Next]_vars

InitDoc == CallIdle /\ \E v \in JsonValues : DocIdle(v, "input")

NextDoc ==
    \/ Convert
    \/ ConvertBack
    \/ \E f \in Keys : ExtractField(f)

SpecDoc == InitDoc /\ [][NextDoc]_vars

(* ============================ properties =============================== *)
Done(m) == pc = "done" /\ args.mode = m
Replied == pc = "done" /\ reply # Pending
IsMessage ==
    /\ Replied
    /\ reply.ok
    /\ reply.val.output.some
    /\ reply.val.output.v.variant = "Message"
MsgContent == reply.val.output.v.content

\* res is the outcome of scanning c for its first text block
FirstTextOutcome(c, res) ==
    IF \E i \in DOMAIN c : c[i].ck = "Text"
    THEN \E i \in DOMAIN c :
            /\ c[i].ck = "Text"
            /\ \A j \in 1..(i - 1) : c[j].ck # "Text"
            /\ res = Ok(c[i].text)
    ELSE res = Err(NoTextContent)

\* block b is a call of the defined tool whose input holds the string field
Yields(b) ==
    /\ b.ck = "ToolUse"
    /\ b.name = TOOL_NAME
    /\ b.input.dk = "Object"
    /\ TRANSCRIPTION_FIELD \in DOMAIN b.input.map
    /\ b.input.map[TRANSCRIPTION_FIELD].dk = "String"

\* C1: a plain completion whose response is a message returns the text of the
\* first text block of the content list (other kinds before it skipped, later
\* text blocks ignored), and fails with NoTextContent when there is none.
C1_PlainFirstText ==
    (Done("plain") /\ IsMessage) => FirstTextOutcome(MsgContent, result)

C1_Witness ==
    /\ Done("plain") /\ IsMessage
    /\ MsgContent = <<Image, Text("second"), Text("first")>>
    /\ result = Ok("second")

\* C2: a structured completion returns the string of the first block that
\* calls the defined tool with a string-valued field, whatever text blocks or
\* calls of other tools surround it.
C2_ToolResultPreferred ==
    (Done("structured") /\ IsMessage) =>
        \A i \in DOMAIN MsgContent :
            (Yields(MsgContent[i]) /\ \A j \in 1..(i - 1) : ~Yields(MsgContent[j]))
            => result = Ok(MsgContent[i].input.map[TRANSCRIPTION_FIELD].str)

C2_Witness ==
    /\ Done("structured") /\ IsMessage
    /\ MsgContent = << Text("first"),
                       ToolUse("other_tool", Obj1(TRANSCRIPTION_FIELD, DString("other"))),
                       ToolUse(TOOL_NAME, Obj1(TRANSCRIPTION_FIELD, DString("hello"))) >>
    /\ result = Ok("hello")

\* C3: when no block of the content list yields the field (matching blocks
\* without it included), the structured completion returns exactly what plain
\* text extraction returns on the same list: the first text block, else
\* NoTextContent.
C3_FallbackToText ==
    (Done("structured") /\ IsMessage /\ \A i \in DOMAIN MsgContent : ~Yields(MsgContent[i]))
    => /\ result = extract_text_from_content(MsgContent)
       /\ FirstTextOutcome(MsgContent, result)

C3_Witness ==
    /\ Done("structured") /\ IsMessage
    /\ MsgContent = << ToolUse(TOOL_NAME, EmptyObj), Text("first") >>
    /\ result = Ok("first")

\* C4: when the remote call succeeds with the output absent, both calls fail
\* with EmptyResponse.
C4_EmptyResponse ==
    (Replied /\ reply.ok /\ ~reply.val.output.some) => result = Err(EmptyResponse)

C4_Witness ==
    /\ Done("structured") /\ Replied /\ reply.ok /\ ~reply.val.output.some
    /\ result = Err("Bedrock returned an empty response")

\* C5: when the output is present but is not a message, both calls fail with
\* UnexpectedResponseShape, whatever the mode.
C5_UnexpectedShape ==
    (Replied /\ reply.ok /\ reply.val.output.some
        /\ reply.val.output.v.variant # "Message")
    => result = Err(UnexpectedResponseShape)

C5_Witness ==
    /\ Done("plain") /\ Replied /\ reply.ok /\ reply.val.output.some
    /\ reply.val.output.v.variant = "Unknown"
    /\ result = Err("Unexpected response type from Bedrock")

\* C9: a call dispatches at most one request; when that request fails the call
\* ends with the mapped error carrying the description, one request sent.
C9_SingleRequestNoRetry ==
    /\ sends <= 1
    /\ pc = "idle" => sends = 0
    /\ pc \in {"awaiting", "replied"} => sends = 1
    /\ (Replied /\ ~reply.ok) =>
          /\ sends = 1
          /\ ~result.ok
          /\ result.err = "Bedrock API error: " \o reply.err

C9_Witness ==
    /\ Done("structured") /\ Replied /\ ~reply.ok
    /\ reply.err = "dispatch failure"
    /\ result = Err("Bedrock API error: dispatch failure")
    /\ sends = 1

\* C10: the request carries exactly one user message whose single text block
\* is user_prompt; exactly one system block equal to system_prompt when it is
\* given and none otherwise; in structured mode exactly one tool specification
\* and a forced choice naming that tool.
C10_RequestShape ==
    request.some =>
       /\ request.v.messages = << [role |-> "user", content |-> <<Text(args.user_prompt)>>] >>
       /\ IF args.system_prompt.some
          THEN request.v.system = Some(<<SystemText(args.system_prompt.v)>>)
          ELSE request.v.system = None
       /\ args.mode = "structured" =>
             /\ request.v.tool_config.some
             /\ Len(request.v.tool_config.v.tools) = 1
             /\ request.v.tool_config.v.tool_choice.kind = "Tool"
             /\ request.v.tool_config.v.tool_choice.name
                  = request.v.tool_config.v.tools[1].name

C10_Witness ==
    /\ request.some
    /\ args.mode = "structured"
    /\ args.system_prompt = Some("sys")
    /\ args.user_prompt = "hi"
    /\ Len(request.v.messages) = 1
    /\ request.v.messages[1].content = <<Text("hi")>>
    /\ request.v.system = Some(<<SystemText("sys")>>)

\* C6: converting a JSON value to a Document and back gives the value again:
\* array order, object keys and the integer-or-float kind of every number kept.
C6_RoundTrip == dpc = "back" => back = value

C6_Witness ==
    /\ dpc = "back"
    /\ value = JObject("other" :> JArray(<< JNumber(JFloat(F(0, 1, 0))),
                                            JNumber(JPosInt(I(0, 1))) >>))
    /\ back = value

IsInt(n) == n.rep \in {"PosInt", "NegInt"}

\* C7 (as amended): an integer-typed number within the signed 64-bit range is
\* sent as a signed integer, an integer-typed number in [2^63, 2^64-1] as an
\* unsigned one, a float-typed number as a float even when it has no
\* fractional part, and a number is never sent as null.
C7_NumberKinds ==
    (dpc # "input" /\ value.jk = "Number") =>
       /\ doc # DNull
       /\ (IsInt(value.num) /\ Le(value.num.int, I64_MAX))
             => doc = DNumber(NegInt(value.num.int))
       /\ (IsInt(value.num) /\ ~Le(value.num.int, I64_MAX))
             => doc = DNumber(PosInt(value.num.int))
       /\ ~IsInt(value.num) => doc = DNumber(Float(value.num.flt))

C7_Witness ==
    /\ dpc = "converted"
    /\ value = JNumber(JPosInt(I(2, 0)))
    /\ doc = DNumber(PosInt(I(2, 0)))

\* the numeric value of a number, as q * 2^62 + r (+ h/2)
NumVal(n) == IF IsInt(n) THEN F(n.int.q, n.int.r, 0) ELSE n.flt

\* C7 (as stated): the kind depends on the value alone: signed when it has no
\* fractional part and fits i64, else unsigned when it fits u64, else float.
C7_Original ==
    (dpc # "input" /\ value.jk = "Number") =>
       /\ doc.dk = "Number"
       /\ doc.num.wrep =
            (IF NumVal(value.num).h = 0
                /\ Le(I64_MIN, NumVal(value.num)) /\ Le(NumVal(value.num), I64_MAX)
             THEN "NegInt"
             ELSE IF NumVal(value.num).h = 0
                     /\ Le(Zero, NumVal(value.num)) /\ Le(NumVal(value.num), U64_MAX)
             THEN "PosInt"
             ELSE "Float")

\* C8: extract_string_field gives nothing for a Document that is not an
\* object, nothing when the key is absent at the top level or holds a value
\* that is not a string, and the exact string otherwise.
C8_ExtractStringField ==
    dpc = "extracted" =>
       /\ doc.dk # "Object" => found = None
       /\ (doc.dk = "Object" /\ field \notin DOMAIN doc.map) => found = None
       /\ (doc.dk = "Object" /\ field \in DOMAIN doc.map /\ doc.map[field].dk # "String")
             => found = None
       /\ (doc.dk = "Object" /\ field \in DOMAIN doc.map /\ doc.map[field].dk = "String")
             => found = Some(doc.map[field].str)

C8_Witness ==
    /\ dpc = "extracted"
    /\ field = TRANSCRIPTION_FIELD
    /\ doc = DObject((TRANSCRIPTION_FIELD :> DString("hello"))
                     @@ ("other" :> DObject(TRANSCRIPTION_FIELD :> DNull)))
    /\ found = Some("hello")

====
